---- MODULE Spec2Model ----
(***************************************************************************)
(* json-editor-mcp: the path addressor (getValueAtPath, setValueAtPath,    *)
(* deleteValueAtPath) of JsonEditorMCPServer, modelled over JavaScript     *)
(* values.  A JSON document is a tree of tagged records; the two built-in  *)
(* prototypes every parsed object or array inherits from are part of the   *)
(* state, because `key in current`, `current[key]` and                     *)
(* `current[key] = value` all resolve the key along the prototype chain.   *)
(***************************************************************************)
EXTENDS Integers, Sequences, FiniteSets, TLC

VARIABLES root, objProto, arrProto, pre, lastOp, result, file, mem, args, disk

vars == <<root, objProto, arrProto, pre, lastOp, result, file, mem, args, disk>>

(***************************************************************************)
(* Bounds                                                                  *)
(***************************************************************************)
\* longest path, in segments
MaxSegs == 3
\* largest Number of the value universe (also the longest array)
MaxNum == 2
\* deepest recursion the call stack takes before a RangeError
MaxStack == 6
\* most entries handed to createObjectWithDuplicateKeys
MaxEntries == 3
\* most files one read_multiple_json_values request names
MaxFiles == 2
\* setValueAtPath calls in one run on one object
MaxCalls == 3

(***************************************************************************)
(* JavaScript values                                                       *)
(***************************************************************************)
EmptyE == [q \in {} |-> q]

Null == [k |-> "null"]
Undefined == [k |-> "undefined"]
Bool(b) == [k |-> "bool", b |-> b]
Num(n) == [k |-> "num", n |-> n]
Str(s) == [k |-> "str", s |-> s]
\* a built-in function object (Object.prototype.toString, ...)
Fn == [k |-> "fn"]
\* the get/set pair Object.prototype.__proto__
Accessor == [k |-> "accessor"]
\* an array element that was never assigned
Hole == [k |-> "hole"]

\* the [[Prototype]] slot of an object
ObjectPrototype == [t |-> "objproto"]
ArrayPrototype == [t |-> "arrproto"]
NullPrototype == [t |-> "null"]
OwnPrototype(v) == [t |-> "own", v |-> v]

\* an object literal / a JSON.parse'd object, and the same for arrays
Obj(e) == [k |-> "obj", e |-> e, pr |-> ObjectPrototype]
Arr(it) == [k |-> "arr", it |-> it, e |-> EmptyE, pr |-> ArrayPrototype]

\* Object.prototype and Array.prototype as the process starts
InitObjProto == [k |-> "obj", e |-> ("toString" :> Fn) @@ ("__proto__" :> Accessor), pr |-> NullPrototype]
InitArrProto == [k |-> "arr", it |-> <<>>, e |-> ("toString" :> Fn), pr |-> ObjectPrototype]

\* typeof v === 'object' (true of null and of arrays)
TypeofObject(v) == v.k \in {"null", "obj", "arr"}
\* what the guards of the code let through: typeof 'object' and not null
IsObjectLike(v) == v.k \in {"obj", "arr"}

\* array index keys of the key universe and their numeric value
IndexKeys == {"0"}
IndexOf(key) == 0
IsIndex(key) == key \in IndexKeys

\* the order in which Object.entries lists the keys of the model's objects:
\* integer keys first, then the order in which the document's text has them
KeyOrder == <<"0", "__proto__", "", "a", "b", "f", "g", "length", "toString">>
KeysInOrder(S) == SelectSeq(KeyOrder, LAMBDA q : q \in S)

(***************************************************************************)
(* Paths: a path string is a sequence of tokens, "." or a name             *)
(***************************************************************************)
Dot == "."

RECURSIVE SplitTrimmingEnd(_)
\* mutant of Split: a dot that ends the path yields no segment after it
SplitTrimmingEnd(s) ==
  IF s = <<>> THEN <<"">>
  ELSE IF Head(s) = Dot THEN <<"">> \o SplitTrimmingEnd(Tail(s))
  ELSE IF Len(s) <= 2 THEN <<Head(s)>>
  ELSE IF s[2] = Dot THEN <<Head(s)>> \o SplitTrimmingEnd(Tail(Tail(s)))
  ELSE <<Head(s)>> \o SplitTrimmingEnd(Tail(s))

RECURSIVE Split(_)
\* path.split('.'): one more segment than there are dots, "" between two dots
Split(s) ==
  IF s = <<>> THEN <<"">>
  ELSE IF Head(s) = Dot THEN <<"">> \o Split(Tail(s))
  ELSE IF Len(s) = 1 THEN <<Head(s)>>
  ELSE IF s[2] = Dot THEN <<Head(s)>> \o Split(Tail(Tail(s)))
  ELSE <<Head(s)>> \o Split(Tail(s))

RECURSIVE Join(_)
\* `${a}.${b}` for a sequence of segments ("" contributes no token)
Join(segs) ==
  IF Len(segs) = 0 THEN <<>>
  ELSE LET h == IF Head(segs) = "" THEN <<>> ELSE <<Head(segs)>>
       IN IF Len(segs) = 1 THEN h ELSE h \o <<Dot>> \o Join(Tail(segs))

(***************************************************************************)
(* The heap a call works on: the document tree and the two prototypes.     *)
(* A location names an object in it by a base and the steps from the base. *)
(***************************************************************************)
Heap(r, op, ap) == [root |-> r, op |-> op, ap |-> ap, nul |-> Null]

KeyStep(key) == [t |-> "key", s |-> key]
ProtoStep == [t |-> "proto"]
Loc(b, p) == [b |-> b, p |-> p]
NoLoc == Loc("none", <<>>)
RootLoc == Loc("root", <<>>)

\* the value an own property holds
OwnValue(node, key) ==
  IF node.k = "arr" /\ key = "length" THEN Num(Len(node.it))
  ELSE IF node.k = "arr" /\ IsIndex(key) THEN node.it[IndexOf(key) + 1]
  ELSE node.e[key]

Child(node, step) ==
  IF step.t = "proto" THEN node.pr.v ELSE OwnValue(node, step.s)

RECURSIVE Walk(_, _)
Walk(node, steps) ==
  IF steps = <<>> THEN node ELSE Walk(Child(node, Head(steps)), Tail(steps))

NodeAt(G, loc) == Walk(G[loc.b], loc.p)

RECURSIVE Replace(_, _, _)
Replace(node, steps, new) ==
  IF steps = <<>> THEN new
  ELSE LET st == Head(steps)
           sub == Replace(Child(node, st), Tail(steps), new)
       IN IF st.t = "proto" THEN [node EXCEPT !.pr = OwnPrototype(sub)]
          ELSE IF node.k = "arr" /\ IsIndex(st.s)
               THEN [node EXCEPT !.it[IndexOf(st.s) + 1] = sub]
               ELSE [node EXCEPT !.e[st.s] = sub]

PutAt(G, loc, new) == [G EXCEPT ![loc.b] = Replace(@, loc.p, new)]

(***************************************************************************)
(* Property lookup: [[GetOwnProperty]], [[HasProperty]], [[Get]]           *)
(***************************************************************************)
\* own property: an entry, or for an array its length and its filled indices
HasOwn(node, key) ==
  /\ node.k \in {"obj", "arr"}
  /\ \/ key \in DOMAIN node.e
     \/ /\ node.k = "arr"
        /\ \/ key = "length"
           \/ IsIndex(key) /\ IndexOf(key) < Len(node.it)
                           /\ node.it[IndexOf(key) + 1] # Hole

\* where the [[Prototype]] of the object at loc lives
ProtoLoc(G, loc) ==
  LET pr == NodeAt(G, loc).pr
  IN CASE pr.t = "objproto" -> Loc("op", <<>>)
       [] pr.t = "arrproto" -> Loc("ap", <<>>)
       [] pr.t = "own" -> Loc(loc.b, loc.p \o <<ProtoStep>>)
       [] OTHER -> NoLoc

RECURSIVE Holder(_, _, _)
\* the first object on the prototype chain of loc that has key as its own
Holder(G, loc, key) ==
  IF loc.b = "none" THEN NoLoc
  ELSE IF HasOwn(NodeAt(G, loc), key) THEN loc
  ELSE Holder(G, ProtoLoc(G, loc), key)

\* key in current
HasProperty(G, loc, key) == Holder(G, loc, key) # NoLoc

\* where the value current[key] lives (key in current is known to hold)
GetLoc(G, loc, key) ==
  LET h == Holder(G, loc, key)
  IN IF OwnValue(NodeAt(G, h), key) = Accessor
     THEN (IF ProtoLoc(G, loc) = NoLoc THEN Loc("nul", <<>>) ELSE ProtoLoc(G, loc))
     ELSE Loc(h.b, h.p \o <<KeyStep(key)>>)

\* current[key]
GetV(G, loc, key) ==
  IF HasProperty(G, loc, key) THEN NodeAt(G, GetLoc(G, loc, key)) ELSE Undefined

\* what a call leaves behind: its outcome and the heap after it
Returned(v, G) == [st |-> "ok", v |-> v, G |-> G]
Failed(kind, seg, G) == [st |-> kind, seg |-> seg, G |-> G]
Done(G) == [st |-> "ok", G |-> G]
Thrown(kind, G) == [st |-> kind, G |-> G]

(***************************************************************************)
(* Property assignment: current[key] = value, in strict mode               *)
(***************************************************************************)
\* Number("...") for the strings of the universe; -1 stands for NaN
StrToNumber(s) ==
  CASE s = "" -> 0
    [] s = "0" -> 0
    [] s = "1" -> 1
    [] s = "2" -> 2
    [] OTHER -> -1

RECURSIVE JoinToNumber(_)
\* Number(String(array)): Array.prototype.join, then the string to a number
JoinToNumber(a) ==
  IF Len(a.it) = 0 THEN 0
  ELSE IF Len(a.it) > 1 THEN -1
  ELSE LET x == a.it[1]
       IN CASE x.k \in {"null", "undefined", "hole"} -> 0
            [] x.k = "num" -> x.n
            [] x.k = "str" -> StrToNumber(x.s)
            [] x.k = "arr" -> JoinToNumber(x)
            [] OTHER -> -1

\* ToNumber(value); -1 is NaN, -2 a TypeError of ToPrimitive (no callable
\* toString left on the prototype chain of the value)
ToNumber(G, v) ==
  CASE v.k = "null" -> 0
    [] v.k = "bool" -> (IF v.b THEN 1 ELSE 0)
    [] v.k = "num" -> v.n
    [] v.k = "str" -> StrToNumber(v.s)
    [] v.k = "arr" -> (IF "toString" \in DOMAIN G.ap.e /\ G.ap.e["toString"] = Fn
                       THEN JoinToNumber(v) ELSE -2)
    [] v.k = "obj" -> (IF "toString" \in DOMAIN G.op.e /\ G.op.e["toString"] = Fn
                       THEN -1 ELSE -2)
    [] OTHER -> -1

\* ArraySetLength: array.length = value
ArraySetLength(G, loc, v) ==
  LET node == NodeAt(G, loc)
      n == ToNumber(G, v)
      old == Len(node.it)
      items == IF n <= old THEN SubSeq(node.it, 1, n)
               ELSE node.it \o [i \in 1..(n - old) |-> Hole]
  IN IF n = -2 THEN Thrown("TypeError", G)
     ELSE IF n < 0 THEN Thrown("RangeError", G)
     ELSE Done(PutAt(G, loc, [node EXCEPT !.it = items]))

\* array[index] = value
ArraySetIndex(G, loc, key, v) ==
  LET node == NodeAt(G, loc)
      i == IndexOf(key) + 1
      old == Len(node.it)
      items == IF i <= old THEN [node.it EXCEPT ![i] = v]
               ELSE node.it \o [j \in 1..(i - old - 1) |-> Hole] \o <<v>>
  IN Done(PutAt(G, loc, [node EXCEPT !.it = items]))

\* the setter of Object.prototype.__proto__, called on the object at loc
ProtoSetter(G, loc, v) ==
  LET node == NodeAt(G, loc)
  IN IF v.k \in {"obj", "arr", "fn"}
     THEN (IF loc = Loc("op", <<>>) THEN Thrown("TypeError", G)
           ELSE Done(PutAt(G, loc, [node EXCEPT !.pr = OwnPrototype(v)])))
     ELSE IF v.k = "null"
     THEN (IF loc = Loc("op", <<>>) THEN Done(G)
           ELSE Done(PutAt(G, loc, [node EXCEPT !.pr = NullPrototype])))
     ELSE Done(G)

\* mutant of DefineOwn: the object is rebuilt around the one entry
DefineOwnClobbering(node, key, v) ==
  [node EXCEPT !.e = (key :> v)]

\* the own data property node[key] = value, created or overwritten
DefineOwn(node, key, v) ==
  [node EXCEPT !.e = (key :> v) @@ node.e]

\* current[key] = value for an object or array current ([[Set]])
WriteProp(G, loc, key, v) ==
  LET node == NodeAt(G, loc)
      h == Holder(G, loc, key)
  IN IF node.k = "arr" /\ key = "length" THEN ArraySetLength(G, loc, v)
     ELSE IF node.k = "arr" /\ IsIndex(key) THEN ArraySetIndex(G, loc, key, v)
     ELSE IF h # NoLoc /\ OwnValue(NodeAt(G, h), key) = Accessor
          THEN ProtoSetter(G, loc, v)
          ELSE Done(PutAt(G, loc, DefineOwn(node, key, v)))

(***************************************************************************)
(* getValueAtPath, setValueAtPath                                          *)
(***************************************************************************)
RECURSIVE GetLoopVivifying(_, _, _)
\* mutant of GetLoop: a missing key is created on the way, as in the loop
\* of setValueAtPath
GetLoopVivifying(G, loc, keys) ==
  IF keys = <<>> THEN Returned(NodeAt(G, loc), G)
  ELSE LET key == Head(keys)
           current == NodeAt(G, loc)
       IN IF current = Null \/ current = Undefined \/ ~TypeofObject(current)
          THEN Failed("NotTraversable", key, G)
          ELSE IF ~HasProperty(G, loc, key)
          THEN Failed("PathNotFound", key, WriteProp(G, loc, key, Obj(EmptyE)).G)
          ELSE GetLoopVivifying(G, GetLoc(G, loc, key), Tail(keys))

RECURSIVE GetLoop(_, _, _)
\* the for-of loop of getValueAtPath, current being the value at loc
GetLoop(G, loc, keys) ==
  IF keys = <<>> THEN Returned(NodeAt(G, loc), G)
  ELSE LET key == Head(keys)
           current == NodeAt(G, loc)
       IN IF current = Null \/ current = Undefined \/ ~TypeofObject(current)
          THEN Failed("NotTraversable", key, G)
          ELSE IF ~HasProperty(G, loc, key)
          THEN Failed("PathNotFound", key, G)
          ELSE GetLoop(G, GetLoc(G, loc, key), Tail(keys))

\* getValueAtPath(obj, path), obj being the root of heap G
getValueAtPath(G, path) == GetLoop(G, RootLoc, Split(path))

RECURSIVE SetLoop(_, _, _, _)
\* the loop of setValueAtPath and its final assignment
SetLoop(G, loc, keys, value) ==
  LET key == Head(keys)
      current == NodeAt(G, loc)
  IN IF ~IsObjectLike(current)
     \* `key in current` and `current[key] = value` throw on null, undefined
     \* and, the class body being strict mode code, on a primitive
     THEN Thrown("TypeError", G)
     ELSE IF Len(keys) = 1 THEN WriteProp(G, loc, key, value)
     ELSE LET fresh == \/ ~HasProperty(G, loc, key)
                       \/ ~TypeofObject(GetV(G, loc, key))
                       \/ GetV(G, loc, key) = Null
              w == IF fresh THEN WriteProp(G, loc, key, Obj(EmptyE)) ELSE Done(G)
          IN IF w.st # "ok" THEN w
             ELSE IF ~HasProperty(w.G, loc, key) THEN Thrown("TypeError", w.G)
             ELSE SetLoop(w.G, GetLoc(w.G, loc, key), Tail(keys), value)

\* setValueAtPath(obj, path, value), obj being the root of heap G
setValueAtPath(G, path, value) == SetLoop(G, RootLoc, Split(path), value)

(***************************************************************************)
(* deleteValueAtPath: the class under test has it (tests/json-operations), *)
(* its code is not in the repository snapshot; modelled from the           *)
(* specification, section 4.1 delete, over the entries of Objects          *)
(***************************************************************************)
RECURSIVE DeleteLoopPruning(_, _)
\* mutant of DeleteLoop: a parent left without entries is removed too
DeleteLoopPruning(node, keys) ==
  LET key == Head(keys)
      without == [node EXCEPT !.e = [q \in DOMAIN node.e \ {key} |-> node.e[q]]]
  IN IF node.k # "obj" THEN [st |-> "NotTraversable", seg |-> key, node |-> node]
     ELSE IF key \notin DOMAIN node.e
     THEN [st |-> "PathNotFound", seg |-> key, node |-> node]
     ELSE IF Len(keys) = 1 THEN [st |-> "ok", seg |-> key, node |-> without]
     ELSE LET r == DeleteLoopPruning(node.e[key], Tail(keys))
          IN IF r.st # "ok" THEN [r EXCEPT !.node = node]
             ELSE IF DOMAIN r.node.e = {} THEN [r EXCEPT !.node = without]
             ELSE [r EXCEPT !.node = [node EXCEPT !.e[key] = r.node]]

RECURSIVE DeleteLoopUnchecked(_, _)
\* mutant of DeleteLoop: a value that is not an Object is taken for an
\* Object without the key
DeleteLoopUnchecked(node, keys) ==
  LET key == Head(keys)
  IN IF node.k # "obj" \/ key \notin DOMAIN node.e
     THEN [st |-> "PathNotFound", seg |-> key, node |-> node]
     ELSE IF Len(keys) = 1
     THEN [st |-> "ok", seg |-> key,
           node |-> [node EXCEPT !.e = [q \in DOMAIN node.e \ {key} |-> node.e[q]]]]
     ELSE LET r == DeleteLoopUnchecked(node.e[key], Tail(keys))
          IN IF r.st # "ok" THEN [r EXCEPT !.node = node]
             ELSE [r EXCEPT !.node = [node EXCEPT !.e[key] = r.node]]

RECURSIVE DeleteLoop(_, _)
DeleteLoop(node, keys) ==
  LET key == Head(keys)
  IN IF node.k # "obj" THEN [st |-> "NotTraversable", seg |-> key, node |-> node]
     ELSE IF key \notin DOMAIN node.e
     THEN [st |-> "PathNotFound", seg |-> key, node |-> node]
     ELSE IF Len(keys) = 1
     THEN [st |-> "ok", seg |-> key,
           node |-> [node EXCEPT !.e = [q \in DOMAIN node.e \ {key} |-> node.e[q]]]]
     ELSE LET r == DeleteLoop(node.e[key], Tail(keys))
          IN IF r.st # "ok" THEN [r EXCEPT !.node = node]
             ELSE [r EXCEPT !.node = [node EXCEPT !.e[key] = r.node]]

deleteValueAtPath(G, path) ==
  LET r == DeleteLoop(G.root, Split(path))
  IN IF r.st = "ok" THEN Done([G EXCEPT !.root = r.node])
     ELSE Failed(r.st, r.seg, G)

(***************************************************************************)
(* The document on disk: readJsonFile, writeJsonFile                       *)
(***************************************************************************)
Missing == [k |-> "missing"]
Invalid == [k |-> "invalid"]

RECURSIVE JSONstringify(_)
\* JSON.stringify(data, null, 2), as the document the text parses back to:
\* own enumerable entries only, no function or undefined entries, array
\* holes as null, nothing of an array but its elements, no prototypes
JSONstringify(v) ==
  CASE v.k = "obj" ->
         Obj([q \in {x \in DOMAIN v.e : v.e[x].k \notin {"fn", "undefined", "accessor"}}
                |-> JSONstringify(v.e[q])])
    [] v.k = "arr" ->
         Arr([i \in 1..Len(v.it) |->
                IF v.it[i].k \in {"fn", "undefined", "hole"} THEN Null
                ELSE JSONstringify(v.it[i])])
    [] OTHER -> v

\* JSON text: an object literal is a sequence of entries, in which a key
\* may occur more than once
TObj(ent) == [k |-> "tobj", ent |-> ent]
TArr(it) == [k |-> "tarr", it |-> it]

\* the last entry of an object literal with the key
LastIndex(ent, key) ==
  CHOOSE i \in DOMAIN ent :
    ent[i].key = key /\ \A j \in DOMAIN ent : ent[j].key = key => j <= i

RECURSIVE JSONparse(_)
\* JSON.parse(content): of a repeated key the last entry is kept
JSONparse(t) ==
  CASE t.k = "tobj" ->
         Obj([q \in {t.ent[i].key : i \in DOMAIN t.ent} |->
                JSONparse(t.ent[LastIndex(t.ent, q)].value)])
    [] t.k = "tarr" -> Arr([i \in 1..Len(t.it) |-> JSONparse(t.it[i])])
    [] OTHER -> t

RECURSIVE Text(_)
\* the text JSON.stringify emits for a document: one entry per key
Text(v) ==
  CASE v.k = "obj" ->
         LET ks == KeysInOrder(DOMAIN v.e)
         IN TObj([i \in 1..Len(ks) |-> [key |-> ks[i], value |-> Text(v.e[ks[i]])]])
    [] v.k = "arr" -> TArr([i \in 1..Len(v.it) |-> Text(v.it[i])])
    [] OTHER -> v

\* readJsonFile(filePath): ENOENT gives {}, unparsable text throws
readJsonFile(f) ==
  CASE f = Missing -> [st |-> "ok", v |-> Obj(EmptyE)]
    [] f = Invalid -> [st |-> "ReadFailed", v |-> Null]
    [] OTHER -> [st |-> "ok", v |-> JSONparse(f)]

\* writeJsonFile(filePath, data)
writeJsonFile(data) == Text(JSONstringify(data))

\* one file of deleteMultipleJsonValues (tests/mcp-integration): load,
\* delete, save; a failure is reported and nothing is saved
deleteJsonValue(f, op, ap, path) ==
  LET loaded == readJsonFile(f)
      d == deleteValueAtPath(Heap(loaded.v, op, ap), path)
  IN IF loaded.st # "ok" THEN [st |-> loaded.st, G |-> Heap(loaded.v, op, ap), file |-> f]
     ELSE IF d.st # "ok" THEN [st |-> d.st, seg |-> d.seg, G |-> d.G, file |-> f]
     ELSE [st |-> "ok", G |-> d.G, file |-> writeJsonFile(d.G.root)]

(***************************************************************************)
(* Inputs: documents, path strings and values                              *)
(***************************************************************************)
\* segments a path is made of: data keys, the empty segment, an array
\* index, and names every object or array answers to without holding them
PathSegs == {"a", "", "0", "length", "toString", "__proto__"}

Paths == {Join(segs) : segs \in UNION {[1..n -> PathSegs] : n \in 1..MaxSegs}}

Numbers == {Num(n) : n \in 0..MaxNum}

\* values a caller writes (parsed from the request, so plain JSON)
Values ==
  {Null, Bool(TRUE), Str("s"), Obj(EmptyE), Obj("b" :> Num(1)), Arr(<<Num(1)>>)}
    \cup Numbers

\* documents as JSON.parse delivers them
ObjectRoots ==
  { Obj(EmptyE),
    Obj(("a" :> Str("s")) @@ ("b" :> Num(1))),
    Obj(("a" :> Null) @@ ("b" :> Num(1))),
    Obj(("a" :> Obj(EmptyE)) @@ ("b" :> Obj(EmptyE))),
    Obj(("a" :> Obj(("a" :> Num(1)) @@ ("b" :> Bool(TRUE)))) @@ ("b" :> Str("s"))),
    Obj(("a" :> Obj(("a" :> Obj(("a" :> Num(1)) @@ ("b" :> Num(2)))) @@ ("b" :> Str("s"))))
          @@ ("b" :> Null)),
    Obj(("a" :> Arr(<<Num(1), Num(2)>>)) @@ ("b" :> Num(1))),
    Obj(("a" :> Arr(<<Obj(("a" :> Num(1)) @@ ("b" :> Num(2)))>>)) @@ ("b" :> Num(1))),
    Obj(("" :> Obj("a" :> Num(1))) @@ ("a" :> Obj("" :> Str("s")))),
    Obj(("" :> Num(1)) @@ ("a" :> Obj(("" :> Obj("a" :> Num(2))) @@ ("b" :> Num(1))))),
    Obj(("0" :> Obj("0" :> Num(1))) @@ ("length" :> Num(1)) @@ ("toString" :> Str("s"))),
    Obj(("__proto__" :> Obj("a" :> Num(1))) @@ ("b" :> Num(1))) }

OtherRoots ==
  {Null, Bool(TRUE), Num(1), Str("s"), Arr(<<>>), Arr(<<Num(1), Obj("a" :> Num(1))>>)}

Roots == ObjectRoots \cup OtherRoots

(***************************************************************************)
(* State machine: a document is loaded, then one operation runs on it      *)
(***************************************************************************)
Snapshot == [root |-> root, op |-> objProto, ap |-> arrProto, file |-> file]

\* the outcome of a call without the heap it left
Outcome(r) == [f \in DOMAIN r \ {"G", "file"} |-> r[f]]

Idle == lastOp.name = "none"

Init ==
  /\ root \in Roots
  /\ file = writeJsonFile(root)
  /\ objProto = InitObjProto
  /\ arrProto = InitArrProto
  /\ pre = [root |-> root, op |-> InitObjProto, ap |-> InitArrProto, file |-> file]
  /\ lastOp = [name |-> "none"]
  /\ result = [st |-> "none"]
  /\ mem = <<>>
  /\ args = [kind |-> "none"]
  /\ disk = EmptyE

Apply(r) ==
  /\ UNCHANGED <<mem, args, disk>>
  /\ root' = r.G.root
  /\ objProto' = r.G.op
  /\ arrProto' = r.G.ap
  /\ result' = Outcome(r)
  /\ pre' = Snapshot

GetValueAtPath(p) ==
  /\ Apply(getValueAtPath(Heap(root, objProto, arrProto), p))
  /\ lastOp' = [name |-> "get", path |-> p]
  /\ UNCHANGED file

SetValueAtPath(p, v) ==
  /\ Apply(setValueAtPath(Heap(root, objProto, arrProto), p, v))
  /\ lastOp' = [name |-> "set", path |-> p, value |-> v]
  /\ UNCHANGED file

DeleteValueAtPath(p) ==
  /\ Apply(deleteValueAtPath(Heap(root, objProto, arrProto), p))
  /\ lastOp' = [name |-> "delete", path |-> p]
  /\ UNCHANGED file

DeleteJsonValue(p) ==
  /\ LET r == deleteJsonValue(file, objProto, arrProto, p)
     IN Apply(r) /\ file' = r.file
  /\ lastOp' = [name |-> "deleteJson", path |-> p]

\* one operation per loaded document
Next ==
  \/ Idle /\ \E p \in Paths : GetValueAtPath(p)
  \/ Idle /\ \E p \in Paths, v \in Values : SetValueAtPath(p, v)
  \/ Idle /\ \E p \in Paths : DeleteValueAtPath(p)
  \/ Idle /\ \E p \in Paths : DeleteJsonValue(p)

Spec == Init /\ [][Next]_vars

(***************************************************************************)
(* Vocabulary of the properties                                            *)
(***************************************************************************)
Now == Heap(root, objProto, arrProto)
Segs == Split(lastOp.path)
IsSet == lastOp.name = "set"
IsGet == lastOp.name = "get"
Completed == result.st = "ok"
HeapUnchanged ==
  root = pre.root /\ objProto = pre.op /\ arrProto = pre.ap /\ file = pre.file

\* the entry of an Object under a key, as the specification's data model
\* has it: a mapping from keys to values and nothing else
Absent == [k |-> "absent"]
Entry(node, key) ==
  IF node.k = "obj" /\ key \in DOMAIN node.e THEN node.e[key] ELSE Absent

RECURSIVE EntryAt(_, _)
EntryAt(node, keys) ==
  IF keys = <<>> THEN node ELSE EntryAt(Entry(node, Head(keys)), Tail(keys))

\* the walk over keys from node looks a key up in an Array
RECURSIVE MeetsArray(_, _)
MeetsArray(node, keys) ==
  /\ keys # <<>>
  /\ \/ node.k = "arr"
     \/ MeetsArray(Entry(node, Head(keys)), Tail(keys))

(***************************************************************************)
(* C1: whenever setValueAtPath(t, p, v) completes on an Object root t,     *)
(* getValueAtPath(t, p) then returns v.                                    *)
(***************************************************************************)
C1_RoundTrip ==
  (IsSet /\ pre.root.k = "obj" /\ Completed) =>
     LET g == getValueAtPath(Now, lastOp.path)
     IN g.st = "ok" /\ g.v = lastOp.value

(***************************************************************************)
(* C2: on an Object root, setValueAtPath stores a new empty Object under   *)
(* every segment but the last where the current Object has no entry or     *)
(* holds Null, a Boolean, a Number or a String, descends into an Object    *)
(* already there, which keeps its other entries, and stores the value      *)
(* under the last segment.                                                 *)
(***************************************************************************)
RECURSIVE Vivified(_, _, _)
\* the tree the claim describes
Vivified(node, keys, v) ==
  LET key == Head(keys)
      inner == IF Entry(node, key).k = "obj" THEN node.e[key] ELSE Obj(EmptyE)
  IN IF Len(keys) = 1 THEN [node EXCEPT !.e = (key :> v) @@ node.e]
     ELSE [node EXCEPT !.e = (key :> Vivified(inner, Tail(keys), v)) @@ node.e]

C2_AutoVivify ==
  (IsSet /\ pre.root.k = "obj" /\ ~MeetsArray(pre.root, Segs)) =>
     /\ Completed
     /\ root = Vivified(pre.root, Segs, lastOp.value)

(***************************************************************************)
(* C3: a set at path p changes only the entries on the addressed path:     *)
(* every entry of the root, and of each Object traversed, whose key is not *)
(* the segment taken at that level is the same after the call as before,   *)
(* and no entry appears under another key.                                 *)
(***************************************************************************)
\* an Object that is an element of an Array on the walk is traversed too
ThroughArray(node, keys) ==
  IF node.k = "arr" /\ Len(keys) > 1 /\ IsIndex(Head(keys)) /\ HasOwn(node, Head(keys))
  THEN OwnValue(node, Head(keys)) ELSE node
RestAfterArray(node, keys) ==
  IF ThroughArray(node, keys) = node THEN keys ELSE Tail(keys)

RECURSIVE SiblingsKept(_, _, _)
\* before and after are one Object of the walk, before and after the call
SiblingsKept(before, after, keys) ==
  LET key == Head(keys)
  IN before.k = "obj" =>
       /\ after.k = "obj"
       /\ DOMAIN after.e \subseteq DOMAIN before.e \cup {key}
       /\ \A q \in DOMAIN before.e \ {key} :
            q \in DOMAIN after.e /\ after.e[q] = before.e[q]
       /\ (Len(keys) > 1 /\ key \in DOMAIN before.e /\ key \in DOMAIN after.e) =>
            SiblingsKept(ThroughArray(before.e[key], Tail(keys)),
                         ThroughArray(after.e[key], Tail(keys)),
                         RestAfterArray(before.e[key], Tail(keys)))

C3_SetFrame ==
  IsSet => SiblingsKept(pre.root, root, Segs)

\* a set went through the Object under "a", which has a sibling entry "b"
\* at both levels, and changed the tree
C3_Witness ==
  /\ IsSet /\ Completed
  /\ Len(Segs) >= 2 /\ Segs[1] = "a"
  /\ Entry(pre.root, "b") # Absent
  /\ Entry(pre.root, "a").k = "obj"
  /\ Entry(Entry(pre.root, "a"), "b") # Absent
  /\ root # pre.root

(***************************************************************************)
(* C4: setValueAtPath on a root that is not an Object (Null, a primitive   *)
(* or an Array) fails and stores nothing (and, the claim goes on, fails in *)
(* no other case; the formula is the first clause).                        *)
(***************************************************************************)
C4_SetFailsOffObject ==
  (IsSet /\ pre.root.k # "obj") => (~Completed /\ HeapUnchanged)

(***************************************************************************)
(* C5: getValueAtPath walks the segments left to right and fails at the    *)
(* first that cannot be resolved, NotTraversable on Null or a primitive,   *)
(* PathNotFound on an Object without an entry under the segment; it        *)
(* returns, the value whatever its kind, only when every segment resolves. *)
(***************************************************************************)
RECURSIVE Resolved(_, _)
\* the outcome the claim describes, over the entries of Objects
Resolved(node, keys) ==
  IF keys = <<>> THEN [st |-> "ok", v |-> node]
  ELSE IF node.k # "obj" THEN [st |-> "NotTraversable", seg |-> Head(keys)]
  ELSE IF Entry(node, Head(keys)) = Absent THEN [st |-> "PathNotFound", seg |-> Head(keys)]
  ELSE Resolved(node.e[Head(keys)], Tail(keys))

C5_GetFailsAtFirstUnresolved ==
  (IsGet /\ ~MeetsArray(pre.root, Segs)) => result = Resolved(pre.root, Segs)

(***************************************************************************)
(* C6: getValueAtPath with the empty path string fails for every root,     *)
(* whatever keys the root has.                                             *)
(***************************************************************************)
C6_EmptyPathFails ==
  (IsGet /\ lastOp.path = <<>>) => ~Completed

(***************************************************************************)
(* C7: an empty segment is looked up as the key "".  As claimed: on an     *)
(* Object with an entry "a" and no "" key at any level, get of "a.", ".a"  *)
(* and "a..a" fails with PathNotFound.                                     *)
(***************************************************************************)
MalformedPaths == {<<"a", Dot>>, <<Dot, "a">>, <<"a", Dot, Dot, "a">>}

RECURSIVE NoEmptyKey(_)
NoEmptyKey(node) ==
  CASE node.k = "obj" -> "" \notin DOMAIN node.e
                         /\ \A q \in DOMAIN node.e : NoEmptyKey(node.e[q])
    [] node.k = "arr" -> \A i \in 1..Len(node.it) : NoEmptyKey(node.it[i])
    [] OTHER -> TRUE

OnMalformedPath ==
  /\ IsGet
  /\ lastOp.path \in MalformedPaths
  /\ pre.root.k = "obj"
  /\ Entry(pre.root, "a") # Absent

C7_EmptySegmentNotFound ==
  (OnMalformedPath /\ NoEmptyKey(pre.root)) => result.st = "PathNotFound"

\* C7 as amended: the three lookups fail at the empty segment, with
\* PathNotFound when it is looked up in an Object or an Array without a ""
\* key and with NotTraversable when it is looked up in Null or a primitive;
\* where the "" key exists the walk goes through it.
EmptySegmentHolder ==
  IF Head(lastOp.path) = Dot THEN pre.root ELSE Entry(pre.root, "a")

C7_EmptySegmentLookup ==
  OnMalformedPath =>
    LET holder == EmptySegmentHolder
    IN CASE ~IsObjectLike(holder) ->
              result = [st |-> "NotTraversable", seg |-> ""]
         [] IsObjectLike(holder) /\ "" \notin DOMAIN holder.e ->
              result = [st |-> "PathNotFound", seg |-> ""]
         [] OTHER ->
              /\ Completed \/ result.seg # ""
              /\ lastOp.path = <<"a", Dot>> => result = [st |-> "ok", v |-> holder.e[""]]

\* get of "a." where "a" holds a string: the empty segment is looked up in
\* a primitive
C7_Witness ==
  /\ OnMalformedPath /\ NoEmptyKey(pre.root)
  /\ lastOp.path = <<"a", Dot>>
  /\ Entry(pre.root, "a").k = "str"
  /\ result.st = "NotTraversable"

(***************************************************************************)
(* C8: getValueAtPath never modifies the tree, whether it returns or       *)
(* fails, and a delete that fails leaves the tree and the file as they     *)
(* were.                                                                   *)
(***************************************************************************)
IsDelete == lastOp.name \in {"delete", "deleteJson"}

C8_GetAndFailedDeleteKeepTree ==
  (IsGet \/ (IsDelete /\ ~Completed)) => HeapUnchanged

\* a delete through the tool failed on its second segment, after the first
\* resolved to an Object that has entries
C8_Witness ==
  /\ lastOp.name = "deleteJson" /\ ~Completed
  /\ Len(Segs) = 2
  /\ Entry(pre.root, Segs[1]).k = "obj"
  /\ DOMAIN Entry(pre.root, Segs[1]).e # {}
  /\ result.seg = Segs[2]

(***************************************************************************)
(* C9: a delete at a path that resolves removes exactly the entry under    *)
(* the final segment from its parent Object: sibling entries at every      *)
(* level keep their values and a parent left without entries stays, as an  *)
(* empty Object.                                                           *)
(***************************************************************************)
RECURSIVE OnlyRemoved(_, _, _)
OnlyRemoved(before, after, keys) ==
  LET key == Head(keys)
  IN /\ before.k = "obj" /\ after.k = "obj"
     /\ key \in DOMAIN before.e
     /\ \A q \in DOMAIN before.e \ {key} :
          q \in DOMAIN after.e /\ after.e[q] = before.e[q]
     /\ IF Len(keys) = 1 THEN DOMAIN after.e = DOMAIN before.e \ {key}
        ELSE /\ DOMAIN after.e = DOMAIN before.e
             /\ OnlyRemoved(before.e[key], after.e[key], Tail(keys))

C9_DeleteRemovesOneEntry ==
  (IsDelete /\ Completed) =>
     /\ EntryAt(pre.root, Segs) # Absent
     /\ OnlyRemoved(pre.root, root, Segs)
     /\ objProto = pre.op /\ arrProto = pre.ap
     /\ lastOp.name = "deleteJson" => file = writeJsonFile(root)
     /\ lastOp.name = "delete" => file = pre.file

\* the only entry of a nested Object was deleted: the Object is still there
C9_Witness ==
  /\ IsDelete /\ Completed
  /\ Segs = <<"a", "">>
  /\ DOMAIN Entry(pre.root, Segs[1]).e = {Segs[2]}
  /\ Entry(root, Segs[1]) = Obj(EmptyE)
  /\ DOMAIN pre.root.e # {Segs[1]}

(***************************************************************************)
(* C10: delete fails with PathNotFound when the final or an intermediate   *)
(* key is absent from the Object it is looked up in, and with              *)
(* NotTraversable when a key would have to be looked up in a value that is *)
(* not an Object.                                                          *)
(***************************************************************************)
\* the first i for which the entries do not resolve Segs[1..i]
FirstUnresolved ==
  CHOOSE i \in 1..Len(Segs) :
    /\ EntryAt(pre.root, SubSeq(Segs, 1, i)) = Absent
    /\ \A j \in 1..(i - 1) : EntryAt(pre.root, SubSeq(Segs, 1, j)) # Absent

C10_DeleteFailures ==
  IsDelete =>
    IF EntryAt(pre.root, Segs) # Absent THEN Completed
    ELSE LET i == FirstUnresolved
             holder == EntryAt(pre.root, SubSeq(Segs, 1, i - 1))
         IN /\ holder.k = "obj" => result = [st |-> "PathNotFound", seg |-> Segs[i]]
            /\ holder.k # "obj" => result = [st |-> "NotTraversable", seg |-> Segs[i]]

\* a delete had to look its last segment up in a string
C10_Witness ==
  /\ IsDelete
  /\ Segs = <<"a", "0">>
  /\ Entry(pre.root, "a").k = "str"
  /\ result = [st |-> "NotTraversable", seg |-> "0"]

(***************************************************************************)
(* The merge engine (deepMerge, deepMergeDuplicates) works on objects by   *)
(* reference: its cycle guard is a set of object identities and its        *)
(* results share nodes with its arguments.  Its heap is a sequence of      *)
(* nodes, an object's identity is its index, and Object.prototype is the   *)
(* first node.                                                             *)
(***************************************************************************)
Ref(a) == [k |-> "ref", a |-> a]

\* a plain object: own properties e, the enumerable ones en, [[Prototype]] pr
Node(e, pr) == [k |-> "obj", e |-> e, en |-> DOMAIN e, pr |-> pr]
ArrNode(it) == [k |-> "arr", it |-> it]

ObjectPrototypeNode ==
  [k |-> "obj", e |-> ("toString" :> Fn) @@ ("__proto__" :> Accessor), en |-> {}, pr |-> Null]
InitMem == <<ObjectPrototypeNode>>
ObjectPrototypeRef == Ref(Len(InitMem))

\* typeof v === 'object' && v !== null && !Array.isArray(v)
IsPlain(M, v) == v.k = "ref" /\ M[v.a].k = "obj"

RECURSIVE MHolder(_, _, _)
\* the object on the prototype chain of v that has the key (Null: none)
MHolder(M, v, key) ==
  IF v.k # "ref" \/ M[v.a].k # "obj" THEN Null
  ELSE IF key \in DOMAIN M[v.a].e THEN v
  ELSE MHolder(M, M[v.a].pr, key)

\* key in obj
MHas(M, obj, key) == MHolder(M, obj, key) # Null

\* obj[key]
MGet(M, obj, key) ==
  LET h == MHolder(M, obj, key)
  IN IF h = Null THEN Undefined
     ELSE IF M[h.a].e[key] = Accessor THEN M[obj.a].pr
     ELSE M[h.a].e[key]

\* a new node at the end of the heap
Alloc(M, node) == [M |-> Append(M, node), r |-> Ref(Len(M) + 1)]

\* {} 
NewObject(M) == Alloc(M, Node(EmptyE, ObjectPrototypeRef))

\* mutant of Spread: result is the target itself, not a copy of it
SpreadAliasing(M, target) == [M |-> M, r |-> target]

\* { ...target }: a new object with the own enumerable properties of target
Spread(M, target) ==
  Alloc(M, Node([q \in M[target.a].en |-> M[target.a].e[q]], ObjectPrototypeRef))

\* Object.entries(obj)
Entries(M, obj) ==
  LET ks == KeysInOrder(M[obj.a].en)
  IN [i \in 1..Len(ks) |-> [key |-> ks[i], value |-> M[obj.a].e[ks[i]]]]

\* what a call of the engine leaves: the heap, the visited set, the value
Ret(M, vis, v) == [st |-> "ok", M |-> M, vis |-> vis, v |-> v]
\* the recursion ran out of stack
StackOverflow(M, vis) == [st |-> "RangeError", M |-> M, vis |-> vis, v |-> Undefined]

\* mutant of VisitedHas: the guard never finds an object
VisitedHasNothing(vis, obj) == FALSE

\* visited.has(obj)
VisitedHas(vis, obj) == obj.a \in vis

\* mutant of MSet: the assignment leaves the object with this one property
MSetClobbering(M, obj, key, v) ==
  [M EXCEPT ![obj.a].e = (key :> v), ![obj.a].en = {key}]

\* obj[key] = v on a plain object: an inherited __proto__ runs the setter of
\* Object.prototype, every other key becomes or stays an own property
MSet(M, obj, key, v) ==
  LET h == MHolder(M, obj, key)
  IN IF h # Null /\ h # obj /\ M[h.a].e[key] = Accessor
     THEN IF v.k \in {"ref", "null"} THEN [M EXCEPT ![obj.a].pr = v] ELSE M
     ELSE [M EXCEPT ![obj.a].e = (key :> v) @@ @, ![obj.a].en = @ \cup {key}]

RECURSIVE deepMerge(_, _, _, _, _)
RECURSIVE MergeLoop(_, _, _, _, _)
RECURSIVE deepMergeDuplicates(_, _, _, _)
RECURSIVE DupLoop(_, _, _, _, _, _)

\* JsonEditorMCPServerTestable.deepMerge(target, source, visited)
deepMerge(M, vis, target, source, depth) ==
  IF depth > MaxStack THEN StackOverflow(M, vis)
  ELSE IF ~IsPlain(M, source) THEN Ret(M, vis, source)
  ELSE IF ~IsPlain(M, target) THEN Ret(M, vis, source)
  ELSE IF VisitedHas(vis, target) \/ VisitedHas(vis, source) THEN Ret(M, vis, source)
  ELSE LET sp == Spread(M, target)
       IN MergeLoop(sp.M, vis \cup {target.a, source.a}, sp.r, Entries(sp.M, source), depth)

\* its loop over Object.entries(source), writing into result
MergeLoop(M, vis, res, es, depth) ==
  IF es = <<>> THEN Ret(M, vis, res)
  ELSE LET key == Head(es).key
           value == Head(es).value
           cur == MGet(M, res, key)
       IN IF MHas(M, res, key) /\ IsPlain(M, cur) /\ IsPlain(M, value)
          THEN LET r == deepMerge(M, vis, cur, value, depth + 1)
               IN IF r.st # "ok" THEN r
                  ELSE MergeLoop(MSet(r.M, res, key, r.v), r.vis, res, Tail(es), depth)
          ELSE MergeLoop(MSet(M, res, key, value), vis, res, Tail(es), depth)

\* JsonEditorMCPServerTestable.deepMergeDuplicates(obj, visited)
deepMergeDuplicates(M, vis, obj, depth) ==
  IF depth > MaxStack THEN StackOverflow(M, vis)
  ELSE IF ~IsPlain(M, obj) THEN Ret(M, vis, obj)
  ELSE IF VisitedHas(vis, obj) THEN Ret(M, vis, obj)
  ELSE LET n == NewObject(M)
       IN DupLoop(n.M, vis \cup {obj.a}, n.r, {}, Entries(n.M, obj), depth)

\* its loop over Object.entries(obj), with the keys seen so far
DupLoop(M, vis, res, seenKeys, es, depth) ==
  IF es = <<>> THEN Ret(M, vis, res)
  ELSE LET key == Head(es).key
           value == Head(es).value
           existingValue == MGet(M, res, key)
       IN IF key \in seenKeys
          THEN IF IsPlain(M, existingValue) /\ IsPlain(M, value)
               THEN LET r == deepMerge(M, vis, existingValue, value, depth + 1)
                    IN IF r.st # "ok" THEN r
                       ELSE DupLoop(MSet(r.M, res, key, r.v), r.vis, res, seenKeys, Tail(es), depth)
               ELSE DupLoop(MSet(M, res, key, value), vis, res, seenKeys, Tail(es), depth)
          ELSE LET r == deepMergeDuplicates(M, vis, value, depth + 1)
               IN IF r.st # "ok" THEN r
                  ELSE DupLoop(MSet(r.M, res, key, r.v), r.vis, res,
                               seenKeys \cup {key}, Tail(es), depth)

RECURSIVE ServerDeepMerge(_, _, _, _)
RECURSIVE ServerMergeLoop(_, _, _, _)
RECURSIVE ServerDeepMergeDuplicates(_, _, _)
RECURSIVE ServerDupLoop(_, _, _, _, _)

\* JsonEditorMCPServer.deepMerge(target, source): no visited set, the
\* values it stores are reconciled first
ServerDeepMerge(M, target, source, depth) ==
  IF depth > MaxStack THEN StackOverflow(M, {})
  ELSE IF ~IsPlain(M, source) THEN Ret(M, {}, source)
  ELSE IF ~IsPlain(M, target) THEN Ret(M, {}, source)
  ELSE LET sp == Spread(M, target)
       IN ServerMergeLoop(sp.M, sp.r, Entries(sp.M, source), depth)

ServerMergeLoop(M, res, es, depth) ==
  IF es = <<>> THEN Ret(M, {}, res)
  ELSE LET key == Head(es).key
           value == Head(es).value
           cur == MGet(M, res, key)
           r == IF MHas(M, res, key) /\ IsPlain(M, cur) /\ IsPlain(M, value)
                THEN ServerDeepMerge(M, cur, value, depth + 1)
                ELSE ServerDeepMergeDuplicates(M, value, depth + 1)
       IN IF r.st # "ok" THEN r
          ELSE ServerMergeLoop(MSet(r.M, res, key, r.v), res, Tail(es), depth)

\* JsonEditorMCPServer.deepMergeDuplicates(obj)
ServerDeepMergeDuplicates(M, obj, depth) ==
  IF depth > MaxStack THEN StackOverflow(M, {})
  ELSE IF ~IsPlain(M, obj) THEN Ret(M, {}, obj)
  ELSE LET n == NewObject(M)
       IN ServerDupLoop(n.M, n.r, {}, Entries(n.M, obj), depth)

ServerDupLoop(M, res, seenKeys, es, depth) ==
  IF es = <<>> THEN Ret(M, {}, res)
  ELSE LET key == Head(es).key
           value == Head(es).value
           existingValue == MGet(M, res, key)
           r == IF key \in seenKeys /\ IsPlain(M, existingValue) /\ IsPlain(M, value)
                THEN ServerDeepMerge(M, existingValue, value, depth + 1)
                ELSE ServerDeepMergeDuplicates(M, value, depth + 1)
       IN IF r.st # "ok" THEN r
          ELSE ServerDupLoop(MSet(r.M, res, key, r.v), res, seenKeys \cup {key}, Tail(es), depth)

(***************************************************************************)
(* Between documents (trees) and the heap                                  *)
(***************************************************************************)
RECURSIVE Load(_, _)
RECURSIVE LoadEntries(_, _, _, _)
RECURSIVE LoadItems(_, _, _)

\* the objects JSON.parse (or an object literal) builds for a document:
\* every entry an own property, "__proto__" included
Load(M, t) ==
  CASE t.k = "obj" ->
         LET r == LoadEntries(M, KeysInOrder(DOMAIN t.e), t.e, EmptyE)
         IN Alloc(r.M, Node(r.e, ObjectPrototypeRef))
    [] t.k = "arr" ->
         LET r == LoadItems(M, t.it, <<>>)
         IN Alloc(r.M, ArrNode(r.it))
    [] OTHER -> [M |-> M, r |-> t]

LoadEntries(M, keys, e, acc) ==
  IF keys = <<>> THEN [M |-> M, e |-> acc]
  ELSE LET c == Load(M, e[Head(keys)])
       IN LoadEntries(c.M, Tail(keys), e, acc @@ (Head(keys) :> c.r))

LoadItems(M, it, acc) ==
  IF it = <<>> THEN [M |-> M, it |-> acc]
  ELSE LET c == Load(M, Head(it))
       IN LoadItems(c.M, Tail(it), Append(acc, c.r))

RECURSIVE Unfold(_, _, _)
\* the document JSON.stringify writes for a value of the heap: own
\* enumerable entries, no prototypes (a cycle cannot be written)
Unfold(M, v, depth) ==
  IF v.k # "ref" THEN v
  ELSE IF depth > MaxStack THEN [k |-> "cyclic"]
  ELSE IF M[v.a].k = "arr"
       THEN Arr([i \in 1..Len(M[v.a].it) |-> Unfold(M, M[v.a].it[i], depth + 1)])
  ELSE Obj([q \in {x \in M[v.a].en : M[v.a].e[x].k \notin {"fn", "undefined", "accessor"}}
              |-> Unfold(M, M[v.a].e[q], depth + 1)])

\* test-helpers createObjectWithDuplicateKeys(entries): obj[key] = value for
\* each entry in turn
RECURSIVE AssignEntries(_, _, _)
AssignEntries(M, obj, es) ==
  IF es = <<>> THEN M
  ELSE AssignEntries(MSet(M, obj, Head(es).key, Head(es).value), obj, Tail(es))

createObjectWithDuplicateKeys(M, es) ==
  LET n == NewObject(M)
  IN [M |-> AssignEntries(n.M, n.r, es), r |-> n.r]

(***************************************************************************)
(* Inputs of the merge engine                                              *)
(***************************************************************************)
MergeKeys == {"a", "b"}

PartialFns(K, V) == UNION {[S -> V] : S \in SUBSET K}

\* values of the entries of the documents merged
MergeValues ==
  { Null, Num(1), Arr(<<Num(1)>>),
    Obj(EmptyE), Obj("a" :> Num(1)), Obj("b" :> Num(2)),
    Obj(("a" :> Num(2)) @@ ("b" :> Num(1))) }

\* documents: every Object over the keys a and b with those values, a few
\* deeper ones, documents with a "__proto__" key, and values that are not
\* Objects
MergeDocs ==
  {Obj(e) : e \in PartialFns(MergeKeys, MergeValues)}
    \cup { Obj("a" :> Obj(("a" :> Obj(("a" :> Num(1)) @@ ("b" :> Num(2)))) @@ ("b" :> Num(1)))),
           Obj("a" :> Obj("a" :> Obj("b" :> Obj("a" :> Num(2))))),
           Obj("__proto__" :> Obj("a" :> Num(1))),
           Obj(("__proto__" :> Obj("a" :> Obj("b" :> Num(1)))) @@ ("a" :> Obj("a" :> Num(2)))),
           Obj(("__proto__" :> Num(1)) @@ ("b" :> Num(2))),
           Obj(("__proto__" :> Arr(<<Num(1)>>)) @@ ("b" :> Num(2))),
           Obj("a" :> Obj(("__proto__" :> Num(1)) @@ ("b" :> Num(2)))),
           Obj("toString" :> Obj("a" :> Num(1))),
           Null, Num(1), Str("s"), Arr(<<Num(1), Num(2)>>), Arr(<<Obj("a" :> Num(1))>>) }

\* two documents as two separate object trees
TreeInput(tt, ts) ==
  LET a == Load(InitMem, tt)
      b == Load(a.M, ts)
  IN [kind |-> "trees", mem |-> b.M, t |-> a.r, s |-> b.r]

\* objects that reach themselves: a.b = a and b.b = b; x.a.b = x
CyclicInputs ==
  { [kind |-> "cyclic",
     mem |-> InitMem \o << Node(("a" :> Num(1)) @@ ("b" :> Ref(2)), ObjectPrototypeRef),
                           Node(("a" :> Num(2)) @@ ("b" :> Ref(3)), ObjectPrototypeRef) >>,
     t |-> Ref(2), s |-> Ref(3)],
    [kind |-> "cyclic",
     mem |-> InitMem \o << Node("a" :> Ref(3), ObjectPrototypeRef),
                           Node("b" :> Ref(2), ObjectPrototypeRef),
                           Node(("a" :> Ref(5)) @@ ("b" :> Num(1)), ObjectPrototypeRef),
                           Node("b" :> Ref(4), ObjectPrototypeRef) >>,
     t |-> Ref(2), s |-> Ref(4)] }

\* objects reachable along two branches, without a cycle
SharedInputs ==
  { [kind |-> "shared",
     mem |-> InitMem \o << Node("a" :> Num(1), ObjectPrototypeRef),
                           Node(("a" :> Ref(2)) @@ ("b" :> Ref(2)), ObjectPrototypeRef),
                           Node("b" :> Num(2), ObjectPrototypeRef),
                           Node(("a" :> Ref(4)) @@ ("b" :> Ref(4)), ObjectPrototypeRef) >>,
     t |-> Ref(3), s |-> Ref(5)] }

MergeInputs ==
  {TreeInput(tt, ts) : tt \in MergeDocs, ts \in MergeDocs} \cup CyclicInputs \cup SharedInputs

\* entries handed to createObjectWithDuplicateKeys, up to MaxEntries of them
EntryValues == {Num(1), Obj("a" :> Num(1)), Obj("b" :> Num(2)), Obj("a" :> Obj("b" :> Num(1)))}
EntryLists ==
  UNION {[1..n -> [key : MergeKeys, value : EntryValues]] : n \in 1..MaxEntries}

RECURSIVE LoadEntryList(_, _, _)
LoadEntryList(M, es, acc) ==
  IF es = <<>> THEN [M |-> M, es |-> acc]
  ELSE LET c == Load(M, Head(es).value)
       IN LoadEntryList(c.M, Tail(es), Append(acc, [key |-> Head(es).key, value |-> c.r]))

EntryInput(es) ==
  LET l == LoadEntryList(InitMem, es, <<>>)
  IN [kind |-> "entries", mem |-> l.M, es |-> l.es, given |-> es]

(***************************************************************************)
(* The merge engine as a state machine: arguments are built, then one      *)
(* call runs on them                                                       *)
(***************************************************************************)
MergeInit ==
  /\ \E in \in MergeInputs \cup {EntryInput(es) : es \in EntryLists} :
       /\ mem = in.mem
       /\ args = [f \in DOMAIN in \ {"mem"} |-> in[f]]
       /\ pre = [mem |-> in.mem]
  /\ root = Null
  /\ file = Missing
  /\ disk = EmptyE
  /\ objProto = InitObjProto
  /\ arrProto = InitArrProto
  /\ lastOp = [name |-> "none"]
  /\ result = [st |-> "none"]

Finish(r) ==
  /\ mem' = r.M
  /\ result' = [st |-> r.st, v |-> r.v]
  /\ pre' = [mem |-> mem]
  /\ UNCHANGED <<root, objProto, arrProto, file, disk, args>>

HasPair == args.kind \in {"trees", "cyclic", "shared"}

DeepMerge(target, source) ==
  /\ Finish(deepMerge(mem, {}, target, source, 1))
  /\ lastOp' = [name |-> "deepMerge", target |-> target, source |-> source]

DeepMergeDuplicates(obj) ==
  /\ Finish(deepMergeDuplicates(mem, {}, obj, 1))
  /\ lastOp' = [name |-> "deepMergeDuplicates", obj |-> obj]

ReconcileEntries ==
  /\ LET c == createObjectWithDuplicateKeys(mem, args.es)
     IN Finish(deepMergeDuplicates(c.M, {}, c.r, 1))
  /\ lastOp' = [name |-> "reconcileEntries"]

MergeNext ==
  \/ Idle /\ HasPair /\ \E t \in {args.t, args.s}, s \in {args.t, args.s} : DeepMerge(t, s)
  \/ Idle /\ HasPair /\ \E o \in {args.t, args.s} : DeepMergeDuplicates(o)
  \/ Idle /\ args.kind = "entries" /\ ReconcileEntries

MergeSpec == MergeInit /\ [][MergeNext]_vars

(***************************************************************************)
(* The tools of JsonEditorMCPServer: each loads files, works on the parsed *)
(* document and saves it.  The disk maps file paths to their content;      *)
(* Object.prototype and Array.prototype outlive a request.                 *)
(***************************************************************************)
\* the text of a tool result for a value: JSON.stringify(value, null, 2)
StringifyTop(v) ==
  IF v.k \in {"fn", "undefined"} THEN Undefined ELSE Text(JSONstringify(v))

\* `Error: ${error.message}` as a string value
ErrorText(kind) == [k |-> "str", s |-> "Error: ", msg |-> kind]

\* the tokens `${key}` adds to a path string
KeyTokens(key) == IF key = "" THEN <<>> ELSE <<key>>

\* what a tool leaves: its outcome, the prototypes and the disk
ToolResult(st, op, ap, d) == [st |-> st, op |-> op, ap |-> ap, disk |-> d]

\* readJsonValue(filePath, path)
readJsonValue(d, op, ap, f, path) ==
  LET loaded == readJsonFile(d[f])
      r == getValueAtPath(Heap(loaded.v, op, ap), path)
  IN IF loaded.st # "ok" THEN ToolResult(loaded.st, op, ap, d)
     ELSE IF r.st # "ok" THEN ToolResult(r.st, op, ap, d) @@ [seg |-> r.seg]
     ELSE ToolResult("ok", op, ap, d) @@ [out |-> StringifyTop(r.v)]

RECURSIVE SetEach(_, _, _, _)
RECURSIVE SetRest(_, _, _, _)
\* writeJsonValue: the loop over Object.entries(value), one setValueAtPath
\* per entry at `${path}.${key}` (at key when path is empty)
SetEach(G, path, keys, value) ==
  IF keys = <<>> THEN Done(G)
  ELSE SetRest(setValueAtPath(G,
                              IF path # <<>> THEN path \o <<Dot>> \o KeyTokens(Head(keys))
                              ELSE KeyTokens(Head(keys)),
                              value.e[Head(keys)]),
               path, Tail(keys), value)

\* the rest of the loop after one setValueAtPath: a throw ends it
SetRest(r, path, keys, value) ==
  IF r.st # "ok" THEN r ELSE SetEach(r.G, path, keys, value)

\* mutant of WriteOutcome: the file is emptied before the outcome is known
WriteOutcomeTruncating(d, op, ap, f, loaded, r) ==
  IF loaded.st # "ok" THEN ToolResult(loaded.st, op, ap, [d EXCEPT ![f] = Text(Obj(EmptyE))])
  ELSE IF r.st # "ok" THEN ToolResult(r.st, r.G.op, r.G.ap, [d EXCEPT ![f] = Text(Obj(EmptyE))])
  ELSE ToolResult("ok", r.G.op, r.G.ap, [d EXCEPT ![f] = writeJsonFile(r.G.root)])

\* writeJsonValue after the load and the sets: the save and the reply
WriteOutcome(d, op, ap, f, loaded, r) ==
  IF loaded.st # "ok" THEN ToolResult(loaded.st, op, ap, d)
  ELSE IF r.st # "ok" THEN ToolResult(r.st, r.G.op, r.G.ap, d)
  ELSE ToolResult("ok", r.G.op, r.G.ap, [d EXCEPT ![f] = writeJsonFile(r.G.root)])

\* its sets: entry by entry for an Object value, one set for any other
SetValue(G, path, value) ==
  IF value.k = "obj"
  THEN SetEach(G, path, KeysInOrder(DOMAIN value.e), value)
  ELSE setValueAtPath(G, path, value)

\* the sets run on the loaded document, unless the load failed
SetLoaded(loaded, op, ap, path, value) ==
  IF loaded.st # "ok" THEN loaded ELSE SetValue(Heap(loaded.v, op, ap), path, value)

\* writeJsonValue(filePath, path, value)
WriteLoaded(d, op, ap, f, path, value, loaded) ==
  WriteOutcome(d, op, ap, f, loaded, SetLoaded(loaded, op, ap, path, value))

writeJsonValue(d, op, ap, f, path, value) ==
  WriteLoaded(d, op, ap, f, path, value, readJsonFile(d[f]))

\* mergeDuplicateKeys after the load and the merge: the save and the reply
MergeOutcome(d, op, ap, f, loaded, r) ==
  IF loaded.st # "ok" THEN ToolResult(loaded.st, op, ap, d)
  ELSE IF r.st # "ok" THEN ToolResult(r.st, op, ap, d)
  ELSE ToolResult("ok", op, ap, [d EXCEPT ![f] = writeJsonFile(Unfold(r.M, r.v, 1))])

\* this.deepMergeDuplicates(jsonData) on the objects JSON.parse built
MergeLoaded(l) == ServerDeepMergeDuplicates(l.M, l.r, 1)

\* mergeDuplicateKeys(filePath)
MergeFile(d, op, ap, f, loaded) ==
  MergeOutcome(d, op, ap, f, loaded, MergeLoaded(Load(InitMem, loaded.v)))

mergeDuplicateKeys(d, op, ap, f) == MergeFile(d, op, ap, f, readJsonFile(d[f]))

RECURSIVE ReadEach(_, _, _, _, _, _)
\* readMultipleJsonValues: the loop over filePaths filling results
ReadEach(d, op, ap, filePaths, path, results) ==
  IF filePaths = <<>> THEN results
  ELSE LET f == Head(filePaths)
           loaded == readJsonFile(d[f])
           r == getValueAtPath(Heap(loaded.v, op, ap), path)
           entry == IF loaded.st # "ok" THEN ErrorText(loaded.st)
                    ELSE IF r.st # "ok" THEN ErrorText(r.st)
                    ELSE r.v
       IN ReadEach(d, op, ap, Tail(filePaths), path, (f :> entry) @@ results)

\* readMultipleJsonValues(filePaths, path)
readMultipleJsonValues(d, op, ap, filePaths, path) ==
  ToolResult("ok", op, ap, d)
    @@ [out |-> StringifyTop(Obj(ReadEach(d, op, ap, filePaths, path, EmptyE)))]

(***************************************************************************)
(* Inputs of the tools                                                     *)
(***************************************************************************)
FileNames == {"f", "g"}

TEntry(key, value) == [key |-> key, value |-> value]

\* texts in which one object literal has a key twice
DuplicateTexts ==
  { TObj(<<TEntry("a", TObj(<<TEntry("a", Num(1))>>)),
           TEntry("b", Str("s")),
           TEntry("a", TObj(<<TEntry("b", Num(2))>>))>>),
    TObj(<<TEntry("a", Num(1)), TEntry("a", Num(2))>>) }

FileContents ==
  {Missing, Invalid} \cup DuplicateTexts
    \cup {Text(v) : v \in { Obj(EmptyE),
                            Obj(("a" :> Obj(("a" :> Num(1)) @@ ("b" :> Num(2)))) @@ ("b" :> Str("s"))),
                            Null }}

ToolPaths ==
  { <<>>, <<"a">>, <<"b">>, <<"a", Dot, "b">>, <<"toString">>, <<"__proto__">>,
    <<"__proto__", Dot, "a">> }

ToolValues ==
  { Num(1), Str("s"), Null, Arr(<<Num(1)>>),
    Obj(EmptyE), Obj("b" :> Num(2)), Obj(("a" :> Num(1)) @@ ("b" :> Obj("a" :> Num(1)))) }

\* the filePaths of a read_multiple_json_values request
FileLists == UNION {[1..n -> FileNames] : n \in 1..MaxFiles}

(***************************************************************************)
(* The server as a state machine: a request is handled to its end; after a *)
(* write a read may follow                                                 *)
(***************************************************************************)
ToolInit ==
  /\ disk \in [FileNames -> FileContents]
  /\ objProto = InitObjProto
  /\ arrProto = InitArrProto
  /\ lastOp = [name |-> "none"]
  /\ result = [st |-> "none"]
  /\ pre = [disk |-> disk, op |-> InitObjProto, ap |-> InitArrProto,
            call |-> [name |-> "none"], result |-> [st |-> "none"]]
  /\ root = Null
  /\ file = Missing
  /\ mem = <<>>
  /\ args = [kind |-> "none"]

\* what the tool reports, without the state it left
Reported(r) == [x \in DOMAIN r \ {"disk", "op", "ap"} |-> r[x]]

\* mutant of CallTool: no try around the switch, a failure leaves the handler
CallToolUncaught(call, r) == Reported(r) @@ [thrown |-> r.st # "ok"]

\* the CallTool handler around the outcome r of the request: a request
\* without arguments throws before the try; inside it a result is returned
\* and an error is caught and returned as the text `Error: ${message}`
CallTool(call, r) ==
  IF DOMAIN call = {"name"} THEN Reported(r) @@ [thrown |-> TRUE]
  ELSE IF r.st # "ok" THEN Reported(r) @@ [thrown |-> FALSE, text |-> ErrorText(r.st)]
  ELSE Reported(r) @@ [thrown |-> FALSE]

Reply(r, call) ==
  /\ disk' = r.disk
  /\ objProto' = r.op
  /\ arrProto' = r.ap
  /\ result' = CallTool(call, r)
  /\ pre' = [disk |-> disk, op |-> objProto, ap |-> arrProto, call |-> lastOp, result |-> result]
  /\ lastOp' = call
  /\ UNCHANGED <<root, file, mem, args>>

ReadJsonValue(f, p) ==
  Reply(readJsonValue(disk, objProto, arrProto, f, p),
        [name |-> "read_json_value", filePath |-> f, path |-> p])

WriteJsonValue(f, p, v) ==
  Reply(writeJsonValue(disk, objProto, arrProto, f, p, v),
        [name |-> "write_json_value", filePath |-> f, path |-> p, value |-> v])

MergeDuplicateKeys(f) ==
  Reply(mergeDuplicateKeys(disk, objProto, arrProto, f),
        [name |-> "merge_duplicate_keys", filePath |-> f])

ReadMultipleJsonValues(fs, p) ==
  Reply(readMultipleJsonValues(disk, objProto, arrProto, fs, p),
        [name |-> "read_multiple_json_values", filePaths |-> fs, path |-> p])

\* the names of the tools, and a name the switch does not know
ToolNames ==
  {"read_json_value", "write_json_value", "merge_duplicate_keys", "read_multiple_json_values"}
RequestNames == ToolNames \cup {"unknown_tool"}

\* default: throw new Error(`Unknown tool: ${name}`)
UnknownTool(f) ==
  Reply(ToolResult("UnknownTool", objProto, arrProto, disk),
        [name |-> "unknown_tool", filePath |-> f])

\* if (!args) throw new Error('No arguments provided')
NoArguments(n) ==
  Reply(ToolResult("NoArguments", objProto, arrProto, disk), [name |-> n])

\* a read may be the first request or follow a write
CanRead == lastOp.name \in {"none", "write_json_value"}

ToolNext ==
  \/ CanRead /\ \E f \in FileNames, p \in ToolPaths : ReadJsonValue(f, p)
  \/ Idle /\ \E f \in FileNames, p \in ToolPaths, v \in ToolValues : WriteJsonValue(f, p, v)
  \/ Idle /\ \E f \in FileNames : MergeDuplicateKeys(f)
  \/ Idle /\ \E fs \in FileLists, p \in ToolPaths : ReadMultipleJsonValues(fs, p)
  \/ Idle /\ \E f \in FileNames : UnknownTool(f)
  \/ Idle /\ \E n \in RequestNames : NoArguments(n)

ToolSpec == ToolInit /\ [][ToolNext]_vars

(***************************************************************************)
(* Vocabulary of the merge properties                                      *)
(***************************************************************************)
IsDeepMerge == lastOp.name = "deepMerge"
IsDeepMergeDuplicates == lastOp.name = "deepMergeDuplicates"
IsReconcileEntries == lastOp.name = "reconcileEntries"

\* a value of the heap before the call and the result of the call, as documents
Before(v) == Unfold(pre.mem, v, 1)
ResultDoc == Unfold(mem, result.v, 1)

RECURSIVE RefMerge(_, _)
\* the reference merge: source unless both are Objects, else the union of
\* the entries with common Object entries merged and source winning elsewhere
RefMerge(t, s) ==
  IF t.k # "obj" \/ s.k # "obj" THEN s
  ELSE Obj([q \in DOMAIN t.e \cup DOMAIN s.e |->
              IF q \notin DOMAIN s.e THEN t.e[q]
              ELSE IF q \notin DOMAIN t.e THEN s.e[q]
              ELSE RefMerge(t.e[q], s.e[q])])

(***************************************************************************)
(* C11: on acyclic inputs deepMerge returns the reference merge of its     *)
(* arguments: source when either is not an Object, otherwise the union of  *)
(* the key sets with common Object entries merged recursively and source   *)
(* winning everywhere else.                                                *)
(***************************************************************************)
C11_DeepMergeIsReference ==
  (IsDeepMerge /\ args.kind = "trees") =>
     /\ result.st = "ok"
     /\ ResultDoc = RefMerge(Before(lastOp.target), Before(lastOp.source))

(***************************************************************************)
(* C12: deepMerge does not mutate its arguments: every object that existed *)
(* before the call has the entries (and the prototype) it had.             *)
(***************************************************************************)
C12_DeepMergeKeepsArguments ==
  IsDeepMerge => \A a \in 1..Len(pre.mem) : mem[a] = pre.mem[a]

\* two different Objects with a common Object entry were merged into a new
\* object that equals neither
C12_Witness ==
  /\ IsDeepMerge /\ args.kind = "trees" /\ result.st = "ok"
  /\ lastOp.target # lastOp.source
  /\ \E q \in MergeKeys :
       /\ Before(lastOp.target).k = "obj" /\ Before(lastOp.source).k = "obj"
       /\ q \in DOMAIN Before(lastOp.target).e /\ q \in DOMAIN Before(lastOp.source).e
       /\ Before(lastOp.target).e[q].k = "obj" /\ Before(lastOp.source).e[q].k = "obj"
       /\ ResultDoc.e[q] \notin {Before(lastOp.target).e[q], Before(lastOp.source).e[q]}
  /\ result.v.a > Len(pre.mem)

(***************************************************************************)
(* C13: for every Object t, deepMerge(t, t) is structurally equal to t.    *)
(***************************************************************************)
C13_DeepMergeIdempotent ==
  (/\ IsDeepMerge
   /\ lastOp.target = lastOp.source
   /\ IsPlain(pre.mem, lastOp.target)
   /\ args.kind \in {"trees", "shared"}) =>
     result.st = "ok" /\ ResultDoc = Before(lastOp.target)

\* an Object with two entries, one of them an Object, merged with itself
C13_Witness ==
  /\ IsDeepMerge /\ result.st = "ok"
  /\ lastOp.target = lastOp.source
  /\ args.kind = "trees"
  /\ Before(lastOp.target).k = "obj"
  /\ DOMAIN Before(lastOp.target).e = {"a", "b"}
  /\ Before(lastOp.target).e["a"].k = "obj"
  /\ Before(lastOp.target).e["a"].e # EmptyE

(***************************************************************************)
(* C14: deepMergeDuplicates and deepMerge return a value, without throwing *)
(* and without running out of stack, on every input, cyclic ones included. *)
(***************************************************************************)
C14_MergeTerminates ==
  (IsDeepMerge \/ IsDeepMergeDuplicates \/ IsReconcileEntries) => result.st = "ok"

\* deepMerge of two objects that each contain themselves returned
C14_Witness ==
  /\ IsDeepMerge /\ args.kind = "cyclic"
  /\ lastOp.target # lastOp.source
  /\ result.st = "ok"
  /\ IsPlain(mem, result.v)

(***************************************************************************)
(* C15: deepMergeDuplicates of a tree in which no Object repeats a key     *)
(* returns a tree structurally equal to its input.                         *)
(***************************************************************************)
C15_ReconcileKeepsTree ==
  (IsDeepMergeDuplicates /\ args.kind = "trees") =>
     result.st = "ok" /\ ResultDoc = Before(lastOp.obj)

RECURSIVE FoldEntries(_, _)
\* the entries of one object literal folded in encounter order: the first
\* occurrence of a key seeds it, a later one is merged into it when both
\* are Objects and replaces it otherwise
FoldEntries(es, acc) ==
  IF es = <<>> THEN Obj(acc)
  ELSE LET key == Head(es).key
           value == Head(es).value
       IN FoldEntries(Tail(es),
            IF key \in DOMAIN acc
            THEN [acc EXCEPT ![key] = RefMerge(@, value)]
            ELSE acc @@ (key :> value))

(***************************************************************************)
(* C16: an object literal delivered as a sequence of entries with a key    *)
(* repeated is reconciled to one entry per key, folded in encounter order  *)
(* (later Objects merged into earlier Objects, anything else replaced).    *)
(***************************************************************************)
C16_DuplicatesFolded ==
  IsReconcileEntries =>
     result.st = "ok" /\ ResultDoc = FoldEntries(args.given, EmptyE)

(***************************************************************************)
(* Vocabulary of the tool properties                                       *)
(***************************************************************************)
\* the last request was a call of the tool, with arguments
Called(name) == lastOp.name = name /\ DOMAIN lastOp # {"name"}
IsReadJsonValue == Called("read_json_value")
IsMergeDuplicateKeys == Called("merge_duplicate_keys")
IsReadMultiple == Called("read_multiple_json_values")

\* the entries of the outer object literal of a text, each value parsed
ParsedEntries(t) ==
  [i \in DOMAIN t.ent |-> TEntry(t.ent[i].key, JSONparse(t.ent[i].value))]

\* the outer object literal of a text has a key twice, both times with an
\* object literal as its value
RepeatsObjectKey(t) ==
  /\ t.k = "tobj"
  /\ \E i, j \in DOMAIN t.ent :
       /\ i < j
       /\ t.ent[i].key = t.ent[j].key
       /\ t.ent[i].value.k = "tobj"
       /\ t.ent[j].value.k = "tobj"

\* the keys of an object literal
TextKeys(t) == {t.ent[i].key : i \in DOMAIN t.ent}

\* the files of a request, as a set
Requested(filePaths) == {filePaths[i] : i \in DOMAIN filePaths}

(***************************************************************************)
(* C17: merge_duplicate_keys on a file whose text has the same key twice   *)
(* in one object literal, both times with an Object value, rewrites the    *)
(* file so that the key holds the recursive merge of both occurrences.     *)
(***************************************************************************)
C17_DuplicateKeysMergedInFile ==
  (IsMergeDuplicateKeys /\ RepeatsObjectKey(pre.disk[lastOp.filePath])) =>
     /\ result.st = "ok"
     /\ JSONparse(disk[lastOp.filePath])
          = FoldEntries(ParsedEntries(pre.disk[lastOp.filePath]), EmptyE)

(***************************************************************************)
(* C18: read_json_value on a file that does not exist fails with a         *)
(* path-not-found error for every path and does not create the file; on a  *)
(* file that does not hold valid JSON it fails with the error "Failed to   *)
(* read JSON file".                                                        *)
(***************************************************************************)
C18_MissingAndInvalidFiles ==
  IsReadJsonValue =>
     /\ pre.disk[lastOp.filePath] = Missing =>
          /\ result.st \in {"PathNotFound", "NotTraversable"}
          /\ disk[lastOp.filePath] = Missing
     /\ pre.disk[lastOp.filePath] = Invalid =>
          result.st = "ReadFailed" /\ disk[lastOp.filePath] = Invalid

(***************************************************************************)
(* C19: read_multiple_json_values returns a map with exactly one entry per *)
(* requested file: "Error: <message>" for a file whose load or lookup      *)
(* fails, the value at the path for every other file.                      *)
(***************************************************************************)
C19_OneEntryPerFile ==
  IsReadMultiple =>
     /\ result.st = "ok"
     /\ result.out.k = "tobj"
     /\ TextKeys(result.out) = Requested(lastOp.filePaths)
     /\ \A i \in DOMAIN result.out.ent :
          LET one == readJsonValue(pre.disk, pre.op, pre.ap,
                                   result.out.ent[i].key, lastOp.path)
          IN result.out.ent[i].value
               = IF one.st = "ok" THEN one.out ELSE ErrorText(one.st)

(***************************************************************************)
(* C20: after write_json_value(file, p, v) reports success,                *)
(* read_json_value(file, p) returns a value structurally equal to v, for   *)
(* every JSON value v and whatever the file held at p before the write.    *)
(***************************************************************************)
C20_WriteReadRoundTrip ==
  (/\ IsReadJsonValue
   /\ pre.call.name = "write_json_value"
   /\ pre.result.st = "ok"
   /\ pre.call.filePath = lastOp.filePath
   /\ pre.call.path = lastOp.path) =>
     result.st = "ok" /\ result.out = Text(pre.call.value)

(***************************************************************************)
(* C22: when the key of an intermediate segment holds an Array,            *)
(* setValueAtPath replaces the Array with a new empty Object before        *)
(* descending: afterwards the value under that key is an Object holding    *)
(* only the rest of the path, and the Array's elements are gone.           *)
(***************************************************************************)
C22_ArrayReplacedOnSet ==
  (/\ IsSet
   /\ pre.root.k = "obj"
   /\ Len(Segs) >= 2
   /\ Entry(pre.root, Head(Segs)).k = "arr") =>
     /\ Completed
     /\ Entry(root, Head(Segs)) = Vivified(Obj(EmptyE), Tail(Segs), lastOp.value)

(***************************************************************************)
(* C23: getValueAtPath fails with NotTraversable whenever a segment would  *)
(* have to be looked up in an Array, be it an index such as "0" or a name  *)
(* such as "length", the Array being the root or inside the tree.          *)
(***************************************************************************)
C23_GetFailsOnArray ==
  (IsGet /\ MeetsArray(pre.root, Segs)) => result.st = "NotTraversable"

(***************************************************************************)
(* A run on one object: setValueAtPath calls one after the other on an     *)
(* initially empty Object, then one getValueAtPath                         *)
(***************************************************************************)
RunPaths ==
  { <<"a">>, <<"b">>, <<"a", Dot, "b">>, <<"b", Dot, "a">>,
    <<"__proto__">>, <<"__proto__", Dot, "a">> }

RunValues == {Num(1), Obj("b" :> Num(1))}

RunInit ==
  /\ root = Obj(EmptyE)
  /\ file = Missing
  /\ objProto = InitObjProto
  /\ arrProto = InitArrProto
  /\ pre = [root |-> root, op |-> InitObjProto, ap |-> InitArrProto, file |-> file]
  /\ lastOp = [name |-> "none"]
  /\ result = [st |-> "none"]
  /\ mem = <<>>
  /\ args = [kind |-> "run", calls |-> <<>>]
  /\ disk = EmptyE

\* the object after a call, and the call added to those of the run
RunApply(r, call) ==
  /\ root' = r.G.root
  /\ objProto' = r.G.op
  /\ arrProto' = r.G.ap
  /\ result' = Outcome(r)
  /\ pre' = Snapshot
  /\ lastOp' = call
  /\ args' = IF call.name = "set"
             THEN [args EXCEPT !.calls = Append(@, call @@ [done |-> r.st = "ok"])]
             ELSE args
  /\ UNCHANGED <<file, mem, disk>>

RunSet(p, v) ==
  RunApply(setValueAtPath(Heap(root, objProto, arrProto), p, v),
           [name |-> "set", path |-> p, value |-> v])

RunGet(p) ==
  RunApply(getValueAtPath(Heap(root, objProto, arrProto), p),
           [name |-> "get", path |-> p])

\* the run goes on until its get
Running == lastOp.name \in {"none", "set"}

RunNext ==
  \/ Running /\ Len(args.calls) < MaxCalls /\ \E p \in RunPaths, v \in RunValues : RunSet(p, v)
  \/ Running /\ Len(args.calls) > 0 /\ \E p \in RunPaths : RunGet(p)

RunSpec == RunInit /\ [][RunNext]_vars

\* one sequence of segments is the beginning of another, longer one
StrictPrefix(s, t) == Len(s) < Len(t) /\ SubSeq(t, 1, Len(s)) = s

\* two paths of which one leads through the other
Nested(p, q) ==
  StrictPrefix(Split(p), Split(q)) \/ StrictPrefix(Split(q), Split(p))

\* the calls of the run that set path p
SetsOf(p) == {i \in DOMAIN args.calls : args.calls[i].path = p}

\* the last call that set p
LastSet(p) == CHOOSE i \in SetsOf(p) : \A j \in SetsOf(p) : j <= i

(***************************************************************************)
(* C21: after any sequence of setValueAtPath calls on one initially empty  *)
(* Object, getValueAtPath(p) returns the value most recently set at p,     *)
(* provided no later call set a path p leads through or one that leads     *)
(* through p; calls on unrelated paths in between do not change it.        *)
(***************************************************************************)
C21_LastSetIsRead ==
  (/\ args.kind = "run"
   /\ IsGet
   /\ SetsOf(lastOp.path) # {}
   /\ \A j \in DOMAIN args.calls :
        j > LastSet(lastOp.path) => ~Nested(args.calls[j].path, lastOp.path)) =>
     /\ args.calls[LastSet(lastOp.path)].done
     /\ result.st = "ok"
     /\ result.v = args.calls[LastSet(lastOp.path)].value

\* deepMerge on copies of the arguments of the call in which no Object is
\* reachable along two branches
MergeOfCopies ==
  LET c == TreeInput(Before(lastOp.target), Before(lastOp.source))
      r == deepMerge(c.mem, {}, c.t, c.s, 1)
  IN [st |-> r.st, doc |-> Unfold(r.M, r.v, 1)]

(***************************************************************************)
(* C24: on acyclic inputs in which one Object is reachable along two       *)
(* branches, deepMerge returns what it returns on a copy of the inputs     *)
(* without sharing: the cycle guard stops no branch of such inputs.        *)
(***************************************************************************)
C24_SharedNodesFullyMerged ==
  (IsDeepMerge /\ args.kind = "shared") =>
     /\ result.st = "ok"
     /\ MergeOfCopies.st = "ok"
     /\ ResultDoc = MergeOfCopies.doc

RECURSIVE ArraysKept(_, _)
\* every Array of the document before, the document itself or the value of
\* a key at any depth, is in the document after at the same place with the
\* same elements
ArraysKept(before, after) ==
  CASE before.k = "arr" -> after = before
    [] before.k = "obj" ->
         \A q \in DOMAIN before.e :
           ArraysKept(before.e[q],
                      IF after.k = "obj" /\ q \in DOMAIN after.e THEN after.e[q] ELSE Absent)
    [] OTHER -> TRUE

(***************************************************************************)
(* C25: deepMergeDuplicates passes every Array through unchanged, with the *)
(* same elements in the same order, when the Array is the input itself and *)
(* when it is the value of a key at any depth.                             *)
(***************************************************************************)
C25_ArraysPassThrough ==
  (IsDeepMergeDuplicates /\ args.kind = "trees") =>
     result.st = "ok" /\ ArraysKept(Before(lastOp.obj), ResultDoc)

(***************************************************************************)
(* Three documents merged in both groupings: deepMerge(deepMerge(a, b), c) *)
(* and deepMerge(a, deepMerge(b, c)), every outer call with a visited set  *)
(* of its own                                                              *)
(***************************************************************************)
\* Objects whose entries hold no Object
FlatDocs ==
  {Obj(e) : e \in PartialFns(MergeKeys, {Num(1), Num(2)})}
    \cup { Obj(("__proto__" :> Num(1)) @@ ("b" :> Num(2))),
           Obj(("__proto__" :> Arr(<<Num(1)>>)) @@ ("b" :> Num(2))),
           Obj(("__proto__" :> Null) @@ ("a" :> Num(1))) }

\* Objects with Objects inside
NestedDocs ==
  { Obj("a" :> Obj("a" :> Num(1))),
    Obj("a" :> Obj("b" :> Num(2))),
    Obj(("a" :> Obj(("a" :> Num(2)) @@ ("b" :> Num(1)))) @@ ("b" :> Num(1))),
    Obj("a" :> Obj("a" :> Num(2))),
    Obj("__proto__" :> Obj("a" :> Obj("b" :> Num(1)))) }

TripleDocs == FlatDocs \cup NestedDocs

\* three documents as three separate object trees
TripleInput(da, db, dc) ==
  LET a == Load(InitMem, da)
      b == Load(a.M, db)
      c == Load(b.M, dc)
  IN [kind |-> "triple", mem |-> c.M, a |-> a.r, b |-> b.r, c |-> c.r,
      docs |-> <<da, db, dc>>]

TripleInit ==
  /\ \E da \in TripleDocs, db \in TripleDocs, dc \in TripleDocs :
       LET in == TripleInput(da, db, dc)
       IN /\ mem = in.mem
          /\ args = [f \in DOMAIN in \ {"mem"} |-> in[f]]
          /\ pre = [mem |-> in.mem]
  /\ root = Null
  /\ file = Missing
  /\ disk = EmptyE
  /\ objProto = InitObjProto
  /\ arrProto = InitArrProto
  /\ lastOp = [name |-> "none"]
  /\ result = [st |-> "none"]

\* deepMerge(x, y) when the call before it returned, its failure otherwise
ThenMergeLeft(r, y) == IF r.st # "ok" THEN r ELSE deepMerge(r.M, {}, r.v, y, 1)
ThenMergeRight(r, x) == IF r.st # "ok" THEN r ELSE deepMerge(r.M, {}, x, r.v, 1)

\* both groupings, one after the other on the same heap
BothGroupings(l, r) ==
  /\ mem' = r.M
  /\ result' = [st |-> IF l.st # "ok" THEN l.st ELSE r.st,
                left |-> Unfold(r.M, l.v, 1),
                right |-> Unfold(r.M, r.v, 1)]
  /\ pre' = [mem |-> mem]
  /\ lastOp' = [name |-> "regroup"]
  /\ UNCHANGED <<root, objProto, arrProto, file, disk, args>>

RightAfterLeft(l) ==
  BothGroupings(l, ThenMergeRight(deepMerge(l.M, {}, args.b, args.c, 1), args.a))

Regroup ==
  RightAfterLeft(ThenMergeLeft(deepMerge(mem, {}, args.a, args.b, 1), args.c))

TripleNext == Idle /\ args.kind = "triple" /\ Regroup

TripleSpec == TripleInit /\ [][TripleNext]_vars

IsRegroup == lastOp.name = "regroup"

(***************************************************************************)
(* C29: deepMerge is associative on Objects: for all Objects a, b and c    *)
(* deepMerge(deepMerge(a, b), c) is structurally equal to                  *)
(* deepMerge(a, deepMerge(b, c)).                                          *)
(***************************************************************************)
C29_Associative ==
  IsRegroup => result.st = "ok" /\ result.left = result.right

\* the shipped server's function on the arguments of the call, which the
\* class under test has just run
ShippedResult ==
  LET r == IF IsDeepMerge
           THEN ServerDeepMerge(pre.mem, lastOp.target, lastOp.source, 1)
           ELSE ServerDeepMergeDuplicates(pre.mem, lastOp.obj, 1)
  IN [st |-> r.st, doc |-> Unfold(r.M, r.v, 1)]

(***************************************************************************)
(* C30: the shipped server's deepMergeDuplicates and deepMerge and those   *)
(* of the class under test return structurally equal results for every     *)
(* acyclic JSON tree without shared nodes.                                 *)
(***************************************************************************)
C30_ShippedEqualsTestable ==
  (args.kind = "trees" /\ (IsDeepMerge \/ IsDeepMergeDuplicates)) =>
     /\ result.st = "ok"
     /\ ShippedResult.st = "ok"
     /\ ShippedResult.doc = ResultDoc

(***************************************************************************)
(* Two write_json_value requests for one file in flight at a time: each    *)
(* awaits readJsonFile, then sets its value in the document it loaded and  *)
(* awaits writeJsonFile; between the two awaits the other request may run  *)
(***************************************************************************)
RaceContents ==
  {Text(v) : v \in { Obj(EmptyE),
                     Obj(("a" :> Num(2)) @@ ("b" :> Str("s"))),
                     Obj("a" :> Obj("a" :> Num(1))) }}

\* paths under two different top-level keys, one per request
RacePaths == << {<<"a">>, <<"a", Dot, "b">>}, {<<"b">>, <<"b", Dot, "a">>} >>

RaceValues == {Num(1), Str("s")}

\* a request that has not loaded the file yet
Request(path, value) ==
  [pc |-> "load", path |-> path, value |-> value, loaded |-> [st |-> "none"]]

RaceInit ==
  /\ \E c \in RaceContents : disk = [f \in FileNames |-> c]
  /\ \E p1 \in RacePaths[1], p2 \in RacePaths[2], v1 \in RaceValues, v2 \in RaceValues :
       args = [kind |-> "race", reqs |-> <<Request(p1, v1), Request(p2, v2)>>]
  /\ objProto = InitObjProto
  /\ arrProto = InitArrProto
  /\ lastOp = [name |-> "none"]
  /\ result = [st |-> "none"]
  /\ pre = [disk |-> disk]
  /\ root = Null
  /\ file = Missing
  /\ mem = <<>>

\* let jsonData = await this.readJsonFile(filePath)
LoadStep(i) ==
  /\ args.reqs[i].pc = "load"
  /\ args' = [args EXCEPT !.reqs[i].pc = "save",
                          !.reqs[i].loaded = readJsonFile(disk["f"])]
  /\ lastOp' = [name |-> "load", req |-> i]
  /\ UNCHANGED <<disk, objProto, arrProto, result, pre, root, file, mem>>

\* the request after its sets and its save
Saved(i, r) ==
  /\ disk' = r.disk
  /\ objProto' = r.op
  /\ arrProto' = r.ap
  /\ args' = [args EXCEPT !.reqs[i].pc = "done", !.reqs[i].loaded = [st |-> r.st]]
  /\ lastOp' = [name |-> "save", req |-> i]
  /\ UNCHANGED <<result, pre, root, file, mem>>

\* this.setValueAtPath(jsonData, path, value); await this.writeJsonFile(...)
SaveStep(i) ==
  /\ args.reqs[i].pc = "save"
  /\ Saved(i, WriteLoaded(disk, objProto, arrProto, "f",
                          args.reqs[i].path, args.reqs[i].value, args.reqs[i].loaded))

RaceNext ==
  \/ \E i \in 1..2 : LoadStep(i)
  \/ \E i \in 1..2 : SaveStep(i)

RaceSpec == RaceInit /\ [][RaceNext]_vars

\* both requests have reported success
BothWritten ==
  /\ args.kind = "race"
  /\ \A i \in 1..2 : args.reqs[i].pc = "done" /\ args.reqs[i].loaded.st = "ok"

\* the file holds the value request i wrote at its path
Holds(i) ==
  LET g == readJsonValue(disk, objProto, arrProto, "f", args.reqs[i].path)
  IN g.st = "ok" /\ g.out = Text(args.reqs[i].value)

(***************************************************************************)
(* C26: when two write_json_value requests for the same file, writing      *)
(* paths under different top-level keys, are in flight at the same time,   *)
(* the file finally holds both written values in every interleaving of     *)
(* their load and save steps.                                              *)
(***************************************************************************)
C26_NoLostUpdate ==
  BothWritten => Holds(1) /\ Holds(2)

IsWriteJsonValue == Called("write_json_value")

(***************************************************************************)
(* C27: a write_json_value or merge_duplicate_keys request that fails      *)
(* performs no write: when loading the file fails or the update in memory  *)
(* throws, the file's content after the request is its content before.     *)
(***************************************************************************)
C27_FailedRequestWritesNothing ==
  ((IsWriteJsonValue \/ IsMergeDuplicateKeys) /\ result.st # "ok") => disk = pre.disk

\* a write failed in memory, on a file holding null, and left the file
C27_Witness ==
  /\ IsWriteJsonValue
  /\ ~result.thrown
  /\ pre.disk[lastOp.filePath] = Text(Null)
  /\ result.st = "TypeError"
  /\ disk = pre.disk

(***************************************************************************)
(* C28: for a tool call that carries arguments every failure inside the    *)
(* tool, an unknown tool name included, is returned as a normal result     *)
(* whose text is "Error: " and the message, and is never thrown to the     *)
(* caller; only a call without arguments throws.                           *)
(***************************************************************************)
C28_FailuresAreReturned ==
  ~Idle =>
     /\ result.thrown <=> DOMAIN lastOp = {"name"}
     /\ (~result.thrown /\ result.st # "ok") => result.text = ErrorText(result.st)

\* an unknown tool called with arguments got its error as a result
C28_Witness ==
  /\ Called("unknown_tool")
  /\ ~result.thrown
  /\ result.text = ErrorText("UnknownTool")

====
